---- MODULE Spec2Model ----
(***************************************************************************)
(* Model of the Kafka load-test producer pool (src/producer.go): the       *)
(* construction of the client pool, StartProducers, the per-worker         *)
(* schedule loop (poll, batch, flush, stop check) and StopProducers.       *)
(*                                                                         *)
(* Worker indices are 0-based as in the Go loops; TLA+ sequences are       *)
(* 1-based, so client index c is stored at clients[c + 1].                 *)
(***************************************************************************)
EXTENDS Integers, Sequences, FiniteSets, TLC

\* ---- bounds of the model ----
MaxWorkers == 2       \* producers in 1..MaxWorkers (scheduling specification)
MaxBatch == 2         \* batchSize in 1..MaxBatch
MaxCreators == 2      \* Workers.creators in 0..MaxCreators (stop channel capacity)
MaxMsgs == 4          \* messages the source holds (safety specification)
MaxLiveMsgs == 2      \* messages the source holds (fair specification)
MaxPoolWorkers == 12  \* producers in 1..MaxPoolWorkers (pool specification)
MaxCalcWorkers == 12  \* first argument of computeClientAmount
MaxCalcRatio == 7     \* second argument of computeClientAmount
MaxRate == 10         \* msgRate in 0..MaxRate (pacing specification)
MaxTickWorkers == 9   \* producers in 0..MaxTickWorkers (pacing specification)

\* ---- program constant ----
ProducerPerWorker == 5

VARIABLES
    producers,    \* input.Workers.producers
    creators,     \* input.Workers.creators (capacity of the stop channel)
    batchSize,    \* input.batchSize
    msgRate,      \* input.msgRate
    kpc,          \* position of the caller: new, constructed, started, stopSend, stopParked, stopWait, stopped
    clients,      \* k.clients: "open" or "nil" per slot
    createErr,    \* err returned by createClients was non-nil
    assigned,     \* client index handed to each worker by StartProducers
    pc,           \* position of each worker goroutine
    msgBatch,     \* msgBatch of each worker
    polls,        \* messages each worker obtained from the source, in poll order
    sent,         \* batches each worker passed to SendMessages, with the outcome
    supply,       \* number of messages the source holds at the start
    polled,       \* number of messages the source has yielded so far
    stopLen,      \* number of notifications buffered in k.stop
    stopI,        \* loop variable i of StopProducers
    wg,           \* counter of k.wg
    metrics,      \* k.metrics: sentBatches, errors
    crashed,      \* the process died from an unrecovered panic
    interval,     \* k.interval, the result of computeTickerInterval
    taken,        \* number of stop notifications each worker has received
    tickerC,      \* ticks buffered in the channel of the shared ticker (part_000)
    tickerOn,     \* the shared ticker is running (part_000)
    calcW, calcR, calcOut  \* arguments and result of computeClientAmount

vars == <<producers, creators, batchSize, msgRate, kpc, clients, createErr, assigned, pc,
          msgBatch, polls, sent, supply, polled, stopLen, stopI, wg, metrics, crashed,
          interval, taken, tickerC, tickerOn, calcW, calcR, calcOut>>

confVars == <<producers, creators, batchSize, msgRate, supply>>
tickVars == <<tickerC, tickerOn>>
calcVars == <<calcW, calcR, calcOut>>
workerVars == <<pc, msgBatch, polls, sent, polled>>

Workers == 0 .. (producers - 1)

\* ---- pure functions ----

\* variant: the quotient truncated instead of rounded up
CeilTruncated(num, den) == num \div den

\* math.Ceil of a quotient of two positive integers: the float64 division is
\* exact enough for operands below 2^53, so Ceil sees a fraction iff the
\* remainder is non-zero.
Ceil(num, den) == IF num % den = 0 THEN num \div den ELSE (num \div den) + 1

computeClientAmount(workers, writers) == Ceil(workers, writers)

\* variant: clients handed out round-robin instead of in blocks
clientIndexRoundRobin(i) == i % ProducerPerWorker

\* the index expression of StartProducers: i/int(ProducerPerWorker)
clientIndex(i) == i \div ProducerPerWorker

\* ---- natural numbers beyond the range of the model checker's integers ----
\* A number is its sequence of digits in base BigBase, least significant
\* first, without a leading zero digit; <<>> is zero.

BigBits == 13
BigBase == 2 ^ BigBits

RECURSIVE BigOf(_)
BigOf(n) == IF n = 0 THEN <<>> ELSE <<n % BigBase>> \o BigOf(n \div BigBase)

BigDigit(a, i) == IF i <= Len(a) THEN a[i] ELSE 0

RECURSIVE BigTrim(_)
BigTrim(a) ==
    IF a = <<>> \/ a[Len(a)] # 0 THEN a ELSE BigTrim(SubSeq(a, 1, Len(a) - 1))

RECURSIVE BigAddFrom(_, _, _, _)
BigAddFrom(a, b, i, carry) ==
    IF i > Len(a) /\ i > Len(b)
    THEN (IF carry = 0 THEN <<>> ELSE <<carry>>)
    ELSE LET s == BigDigit(a, i) + BigDigit(b, i) + carry
         IN <<s % BigBase>> \o BigAddFrom(a, b, i + 1, s \div BigBase)

BigAdd(a, b) == BigAddFrom(a, b, 1, 0)

RECURSIVE BigSubFrom(_, _, _, _)
BigSubFrom(a, b, i, borrow) ==
    IF i > Len(a)
    THEN <<>>
    ELSE LET d == BigDigit(a, i) - BigDigit(b, i) - borrow
         IN <<(d + BigBase) % BigBase>>
              \o BigSubFrom(a, b, i + 1, IF d < 0 THEN 1 ELSE 0)

\* a - b, for a >= b
BigSub(a, b) == BigTrim(BigSubFrom(a, b, 1, 0))

RECURSIVE BigLessFrom(_, _, _)
BigLessFrom(a, b, i) ==
    IF i = 0 THEN FALSE
    ELSE IF a[i] # b[i] THEN a[i] < b[i]
    ELSE BigLessFrom(a, b, i - 1)

BigLess(a, b) ==
    IF Len(a) # Len(b) THEN Len(a) < Len(b) ELSE BigLessFrom(a, b, Len(a))

BigLeq(a, b) == ~BigLess(b, a)

\* a * d for a single digit d
RECURSIVE BigMulDigitFrom(_, _, _, _)
BigMulDigitFrom(a, d, i, carry) ==
    IF i > Len(a)
    THEN (IF carry = 0 THEN <<>> ELSE <<carry>>)
    ELSE LET p == a[i] * d + carry
         IN <<p % BigBase>> \o BigMulDigitFrom(a, d, i + 1, p \div BigBase)

BigMulDigit(a, d) == IF d = 0 THEN <<>> ELSE BigMulDigitFrom(a, d, 1, 0)

\* a * BigBase^k
BigShiftDigits(a, k) == IF a = <<>> THEN <<>> ELSE [i \in 1 .. k |-> 0] \o a

RECURSIVE BigMulFrom(_, _, _)
BigMulFrom(a, b, i) ==
    IF i > Len(b) THEN <<>>
    ELSE BigAdd(BigShiftDigits(BigMulDigit(a, b[i]), i - 1), BigMulFrom(a, b, i + 1))

BigMul(a, b) == BigMulFrom(a, b, 1)

\* the quotient digits of a by a single digit d > 0, from position i down,
\* with the remainder rem carried in from above
RECURSIVE BigDivDigitFrom(_, _, _, _)
BigDivDigitFrom(a, d, i, rem) ==
    IF i = 0 THEN <<>>
    ELSE LET n == rem * BigBase + a[i]
         IN BigDivDigitFrom(a, d, i - 1, n % d) \o <<n \div d>>

BigDivDigit(a, d) == BigTrim(BigDivDigitFrom(a, d, Len(a), 0))

\* a * 2^k
BigShl(a, k) == BigShiftDigits(BigMulDigit(a, 2 ^ (k % BigBits)), k \div BigBits)

\* floor(a / 2^k)
BigShr(a, k) ==
    IF k \div BigBits >= Len(a) THEN <<>>
    ELSE BigDivDigit(SubSeq(a, (k \div BigBits) + 1, Len(a)), 2 ^ (k % BigBits))

\* number of bits of a digit
RECURSIVE DigitLen(_)
DigitLen(d) == IF d = 0 THEN 0 ELSE 1 + DigitLen(d \div 2)

\* number of bits of a
BigLen(a) == IF a = <<>> THEN 0 ELSE (Len(a) - 1) * BigBits + DigitLen(a[Len(a)])

BigOdd(a) == a # <<>> /\ a[1] % 2 = 1

\* BigBits steps of the binary long division by y: the remainder r < y is
\* doubled and reduced, the quotient bits are gathered in the digit qd
RECURSIVE BigDivSteps(_, _, _, _)
BigDivSteps(y, r, qd, n) ==
    IF n = 0 THEN [r |-> r, qd |-> qd]
    ELSE LET r2 == BigAdd(r, r)
         IN IF BigLess(r2, y)
            THEN BigDivSteps(y, r2, 2 * qd, n - 1)
            ELSE BigDivSteps(y, BigSub(r2, y), 2 * qd + 1, n - 1)

\* the k digits of floor(r * BigBase^k / y) for r < y, and the remainder
RECURSIVE BigDivFraction(_, _, _)
BigDivFraction(y, r, k) ==
    IF k = 0 THEN [q |-> <<>>, r |-> r]
    ELSE LET d == BigDivSteps(y, r, 0, BigBits)
             rest == BigDivFraction(y, d.r, k - 1)
         IN [q |-> rest.q \o <<d.qd>>, r |-> rest.r]

\* ---- float64 arithmetic ----
\* A float64 is zero, +Inf, NaN or a finite positive value m * 2^e with a
\* mantissa m of exactly MantBits bits (the values here are never negative and
\* never subnormal).

MantBits == 53

FZero == [kind |-> "zero", m |-> <<>>, e |-> 0]
FInf == [kind |-> "inf", m |-> <<>>, e |-> 0]
FNaN == [kind |-> "nan", m |-> <<>>, e |-> 0]

\* the float64 nearest to M * 2^e (plus a non-zero fraction of 2^e when
\* sticky), ties to even
FRound(M, e, sticky) ==
    LET d == BigLen(M) - MantBits
    IN IF d <= 0
       THEN [kind |-> "fin", m |-> BigShl(M, 0 - d), e |-> e + d]
       ELSE LET kept == BigShr(M, d)
                tail == BigShr(M, d - 1)
                low == sticky \/ BigShl(tail, d - 1) # M
                up == BigOdd(tail) /\ (low \/ BigOdd(kept))
                r == IF up THEN BigAdd(kept, <<1>>) ELSE kept
            IN IF BigLen(r) > MantBits
               THEN [kind |-> "fin", m |-> BigShr(r, 1), e |-> e + d + 1]
               ELSE [kind |-> "fin", m |-> r, e |-> e + d]

\* float64(n) for an integer n >= 0
FFromInt(n) == IF n = 0 THEN FZero ELSE FRound(BigOf(n), 0, FALSE)

\* the digits of the mantissa quotient that FDiv rounds
DivDigits == 5

\* x / y
FDiv(x, y) ==
    CASE x.kind = "nan" \/ y.kind = "nan" -> FNaN
      [] x.kind = "zero" /\ y.kind = "zero" -> FNaN
      [] x.kind = "inf" /\ y.kind = "inf" -> FNaN
      [] x.kind = "inf" -> FInf
      [] y.kind = "inf" -> FZero
      [] x.kind = "zero" -> FZero
      [] y.kind = "zero" -> FInf
      [] OTHER ->
           LET top == IF BigLess(x.m, y.m) THEN 0 ELSE 1
               d == BigDivFraction(y.m, IF top = 1 THEN BigSub(x.m, y.m) ELSE x.m,
                                   DivDigits)
           IN FRound(BigTrim(d.q \o <<top>>), x.e - y.e - DivDigits * BigBits,
                     d.r # <<>>)

\* x * y
FMul(x, y) ==
    CASE x.kind = "nan" \/ y.kind = "nan" -> FNaN
      [] x.kind = "zero" /\ y.kind = "inf" -> FNaN
      [] x.kind = "inf" /\ y.kind = "zero" -> FNaN
      [] x.kind = "inf" \/ y.kind = "inf" -> FInf
      [] x.kind = "zero" \/ y.kind = "zero" -> FZero
      [] OTHER -> FRound(BigMul(x.m, y.m), x.e + y.e, FALSE)

\* the integer part of a finite x
FTrunc(x) ==
    IF x.kind = "zero" THEN <<>>
    ELSE IF x.e >= 0 THEN BigShl(x.m, x.e) ELSE BigShr(x.m, 0 - x.e)

\* ---- pacing ----

NanosPerSecond == 1000000000

\* int64(x) for a float64 x: the integer part when it fits; the conversion of
\* +Inf, NaN or a value of 2^63 and more is left to the architecture (the
\* smallest int64 on amd64; the largest int64, or 0 for NaN, on arm64).
Int64Of(x) ==
    CASE x.kind = "inf" -> {[kind |-> "minInt64", ns |-> <<>>], [kind |-> "maxInt64", ns |-> <<>>]}
      [] x.kind = "nan" -> {[kind |-> "minInt64", ns |-> <<>>], [kind |-> "int", ns |-> <<>>]}
      [] OTHER -> IF BigLen(FTrunc(x)) > 63
                  THEN {[kind |-> "minInt64", ns |-> <<>>], [kind |-> "maxInt64", ns |-> <<>>]}
                  ELSE {[kind |-> "int", ns |-> FTrunc(x)]}

\* variant: the rate and the worker count change places
computeTickerIntervalInverted(rate, workerCount) ==
    Int64Of(FMul(FDiv(FFromInt(1), FDiv(FFromInt(workerCount), FFromInt(rate))),
                 FFromInt(NanosPerSecond)))

\* computeTickerInterval: int64((1.0 / (float64(msgRate) / float64(workerCount))) * 1e9),
\* as the set of results the conversion can give.
computeTickerInterval(rate, workerCount) ==
    Int64Of(FMul(FDiv(FFromInt(1), FDiv(FFromInt(rate), FFromInt(workerCount))),
                 FFromInt(NanosPerSecond)))

\* ---- initial states ----

InitRest ==
    /\ kpc = "new"
    /\ clients = <<>>
    /\ createErr = FALSE
    /\ assigned = [w \in Workers |-> 0]
    /\ pc = [w \in Workers |-> "idle"]
    /\ msgBatch = [w \in Workers |-> <<>>]
    /\ polls = [w \in Workers |-> <<>>]
    /\ sent = [w \in Workers |-> <<>>]
    /\ polled = 0
    /\ stopLen = 0
    /\ stopI = 0
    /\ wg = 0
    /\ metrics = [sentBatches |-> 0, errors |-> 0]
    /\ crashed = FALSE
    /\ interval = [kind |-> "unset", ns |-> <<>>]
    /\ taken = [w \in Workers |-> 0]
    /\ tickerC = 0
    /\ tickerOn = FALSE

Init ==
    /\ producers \in 1 .. MaxWorkers
    /\ creators \in 0 .. MaxCreators
    /\ batchSize \in 1 .. MaxBatch
    /\ msgRate = 1
    /\ supply = MaxMsgs
    /\ calcW = 0 /\ calcR = 0 /\ calcOut = -1
    /\ InitRest

\* the same configurations with a smaller source, for the fair specification
LiveInit ==
    /\ producers \in 1 .. MaxWorkers
    /\ creators \in 0 .. MaxCreators
    /\ batchSize \in 1 .. MaxBatch
    /\ msgRate = 1
    /\ supply = MaxLiveMsgs
    /\ calcW = 0 /\ calcR = 0 /\ calcOut = -1
    /\ InitRest

\* the pool alone, for worker counts that need several clients
PoolInit ==
    /\ producers \in 1 .. MaxPoolWorkers
    /\ creators \in 0 .. MaxCreators
    /\ batchSize \in 1 .. MaxBatch
    /\ msgRate = 1
    /\ supply = 0
    /\ calcW = 0 /\ calcR = 0 /\ calcOut = -1
    /\ InitRest

\* construction alone, over rates and worker counts that include zero
ConfInit ==
    /\ producers \in 0 .. MaxTickWorkers
    /\ creators = 0
    /\ batchSize = 1
    /\ msgRate \in 0 .. MaxRate
    /\ supply = 0
    /\ calcW = 0 /\ calcR = 0 /\ calcOut = -1
    /\ InitRest

\* arguments of computeClientAmount; calcOut = -1 until it has been called
CalcInit ==
    /\ producers = 1 /\ creators = 0 /\ batchSize = 1 /\ msgRate = 1 /\ supply = 0
    /\ calcW \in 1 .. MaxCalcWorkers
    /\ calcR \in 1 .. MaxCalcRatio
    /\ calcOut = -1
    /\ InitRest

\* a call of computeClientAmount(calcW, calcR)
CallComputeClientAmount ==
    /\ calcOut = -1
    /\ calcOut' = computeClientAmount(calcW, calcR)
    /\ UNCHANGED <<confVars, tickVars, interval, taken, calcW, calcR, kpc, clients, createErr, assigned, pc,
                   msgBatch, polls, sent, polled, stopLen, stopI, wg, metrics, crashed>>

\* ---- construction ----

\* createClients: the first `opened` calls of sarama.NewClient succeed; on the
\* first failure the slice is returned as it is, the remaining slots nil.
createClients(amount, opened) ==
    [i \in 1 .. amount |-> IF i <= opened THEN "open" ELSE "nil"]

\* KafkaProducer: the error of createClients is printed and the pool is
\* returned all the same.
KafkaProducer ==
    /\ kpc = "new"
    /\ \E opened \in 0 .. computeClientAmount(producers, ProducerPerWorker) :
          LET clientCount == computeClientAmount(producers, ProducerPerWorker) IN
          /\ clients' = createClients(clientCount, opened)
          /\ createErr' = (opened < clientCount)
    /\ interval' \in computeTickerInterval(msgRate, producers)
    /\ metrics' = [sentBatches |-> 0, errors |-> 0]
    /\ stopLen' = 0
    /\ kpc' = "constructed"
    /\ UNCHANGED <<confVars, calcVars, tickVars, taken, workerVars, assigned, stopI, wg,
                   crashed>>

\* StartProducers: wg.Add(count), then one goroutine per worker with its client.
StartProducers ==
    /\ kpc = "constructed"
    /\ ~crashed
    /\ wg' = wg + producers
    /\ assigned' = [i \in Workers |-> clientIndex(i)]
    /\ pc' = [i \in Workers |-> "start"]
    /\ kpc' = "started"
    /\ UNCHANGED <<confVars, calcVars, tickVars, interval, taken, clients, createErr, msgBatch, polls, sent,
                   polled, stopLen, stopI, metrics, crashed>>

\* ---- worker goroutine: producer ----

\* sarama.NewSyncProducerFromClient succeeds: the deferred calls are registered
\* and the worker enters startSchedule.
NewProducerOk(w) ==
    /\ ~crashed
    /\ pc[w] = "start"
    /\ clients[assigned[w] + 1] = "open"
    /\ pc' = [pc EXCEPT ![w] = "wait"]
    /\ UNCHANGED <<confVars, calcVars, tickVars, interval, taken, kpc, clients, createErr, assigned, msgBatch,
                   polls, sent, polled, stopLen, stopI, wg, metrics, crashed>>

\* sarama.NewSyncProducerFromClient returns (nil, err): wg.Done is deferred,
\* then the nil handle's Close panics; the deferred wg.Done runs while the
\* goroutine unwinds.
NewProducerErr(w) ==
    /\ ~crashed
    /\ pc[w] = "start"
    /\ clients[assigned[w] + 1] = "open"
    /\ wg' = wg - 1
    /\ pc' = [pc EXCEPT ![w] = "panicking"]
    /\ UNCHANGED <<confVars, calcVars, tickVars, interval, taken, kpc, clients, createErr, assigned, msgBatch,
                   polls, sent, polled, stopLen, stopI, metrics, crashed>>

\* The unrecovered panic of NewProducerErr ends the process.
Crash(w) ==
    /\ ~crashed
    /\ pc[w] = "panicking"
    /\ crashed' = TRUE
    /\ pc' = [pc EXCEPT ![w] = "panicked"]
    /\ UNCHANGED <<confVars, calcVars, tickVars, interval, taken, kpc, clients, createErr, assigned, msgBatch,
                   polls, sent, polled, stopLen, stopI, wg, metrics>>

\* The worker was handed a nil client (createClients had failed): the call on
\* the nil interface panics before any defer is registered.
NewProducerNilClient(w) ==
    /\ ~crashed
    /\ pc[w] = "start"
    /\ clients[assigned[w] + 1] = "nil"
    /\ crashed' = TRUE
    /\ pc' = [pc EXCEPT ![w] = "panicked"]
    /\ UNCHANGED <<confVars, calcVars, tickVars, interval, taken, kpc, clients, createErr, assigned, msgBatch,
                   polls, sent, polled, stopLen, stopI, wg, metrics>>

\* ---- worker goroutine: startSchedule ----

\* variant: the reslice keeps the last element
resetBatchKeepLast(b) == <<b[Len(b)]>>

\* msgBatch = msgBatch[:0]
resetBatch(b) == <<>>

\* variant: the flush test is off by one
batchFullOffByOne(b) == Len(b) + 1 >= batchSize

\* the test that lets a tick go on to the flush: len(msgBatch) == batchSize
batchFull(b) == Len(b) = batchSize

\* variant: an empty poll flushes whatever the batch holds (time-based flush)
TickEmptyFlush(w) ==
    /\ ~crashed
    /\ pc[w] = "wait"
    /\ pc' = [pc EXCEPT ![w] = IF msgBatch[w] # <<>> THEN "flush" ELSE "select"]
    /\ UNCHANGED <<confVars, calcVars, tickVars, interval, taken, kpc, clients, createErr, assigned, msgBatch,
                   polls, sent, polled, stopLen, stopI, wg, metrics, crashed>>

\* A tick on which pollMessage returns nil: nothing but the print, then the
\* stop check.
TickEmpty(w) ==
    /\ ~crashed
    /\ pc[w] = "wait"
    /\ pc' = [pc EXCEPT ![w] = "select"]
    /\ UNCHANGED <<confVars, calcVars, tickVars, interval, taken, kpc, clients, createErr, assigned, msgBatch,
                   polls, sent, polled, stopLen, stopI, wg, metrics, crashed>>

\* The message a successful poll of worker w yields: every Get hands out a
\* different object, named here by the worker and its poll number.
newMessage(w) == <<w, Len(polls[w]) + 1>>

\* A tick on which pollMessage returns a message: append it; `continue` to the
\* next tick unless the batch is full, else go on to the flush.
TickAppend(w) ==
    /\ ~crashed
    /\ pc[w] = "wait"
    /\ polled < supply
    /\ polled' = polled + 1
    /\ polls' = [polls EXCEPT ![w] = Append(@, newMessage(w))]
    /\ msgBatch' = [msgBatch EXCEPT ![w] = Append(@, newMessage(w))]
    /\ pc' = [pc EXCEPT ![w] = IF batchFull(msgBatch'[w]) THEN "flush" ELSE "wait"]
    /\ UNCHANGED <<confVars, calcVars, tickVars, interval, taken, kpc, clients, createErr, assigned, sent,
                   stopLen, stopI, wg, metrics, crashed>>

\* atomic.AddUint64(&k.metrics.sentBatches, 1), then the call of SendMessages.
FlushStart(w) ==
    /\ ~crashed
    /\ pc[w] = "flush"
    /\ metrics' = [metrics EXCEPT !.sentBatches = @ + 1]
    /\ pc' = [pc EXCEPT ![w] = "send"]
    /\ UNCHANGED <<confVars, calcVars, tickVars, interval, taken, kpc, clients, createErr, assigned, msgBatch,
                   polls, sent, polled, stopLen, stopI, wg, crashed>>

\* SendMessages returns nil: the batch is reset, on to the stop check.
SendOk(w) ==
    /\ ~crashed
    /\ pc[w] = "send"
    /\ sent' = [sent EXCEPT ![w] = Append(@, [msgs |-> msgBatch[w], ok |-> TRUE])]
    /\ msgBatch' = [msgBatch EXCEPT ![w] = resetBatch(@)]
    /\ pc' = [pc EXCEPT ![w] = "select"]
    /\ UNCHANGED <<confVars, calcVars, tickVars, interval, taken, kpc, clients, createErr, assigned, polls,
                   polled, stopLen, stopI, wg, metrics, crashed>>

\* variant: a failed batch is kept for the next attempt
SendFailKeepBatch(w) ==
    /\ ~crashed
    /\ pc[w] = "send"
    /\ sent' = [sent EXCEPT ![w] = Append(@, [msgs |-> msgBatch[w], ok |-> FALSE])]
    /\ metrics' = [metrics EXCEPT !.errors = @ + 1]
    /\ pc' = [pc EXCEPT ![w] = "select"]
    /\ UNCHANGED <<confVars, calcVars, tickVars, interval, taken, kpc, clients, createErr, assigned, msgBatch,
                   polls, polled, stopLen, stopI, wg, crashed>>

\* SendMessages returns an error: the batch is reset, the error is counted,
\* on to the stop check.
SendFail(w) ==
    /\ ~crashed
    /\ pc[w] = "send"
    /\ sent' = [sent EXCEPT ![w] = Append(@, [msgs |-> msgBatch[w], ok |-> FALSE])]
    /\ msgBatch' = [msgBatch EXCEPT ![w] = resetBatch(@)]
    /\ metrics' = [metrics EXCEPT !.errors = @ + 1]
    /\ pc' = [pc EXCEPT ![w] = "select"]
    /\ UNCHANGED <<confVars, calcVars, tickVars, interval, taken, kpc, clients, createErr, assigned, polls,
                   polled, stopLen, stopI, wg, crashed>>

\* variant: the worker takes the notification but goes on with the next tick
StopReceiveNoReturn(w) ==
    /\ ~crashed
    /\ pc[w] = "select"
    /\ stopLen > 0 \/ kpc = "stopParked"
    /\ IF kpc = "stopParked"
          THEN /\ stopI' = stopI + 1
               /\ kpc' = "stopSend"
               /\ stopLen' = stopLen
          ELSE /\ stopLen' = stopLen - 1
               /\ UNCHANGED <<stopI, kpc>>
    /\ taken' = [taken EXCEPT ![w] = @ + 1]
    /\ pc' = [pc EXCEPT ![w] = "wait"]
    /\ UNCHANGED <<confVars, calcVars, tickVars, interval, clients, createErr, assigned, msgBatch,
                   polls, sent, polled, wg, metrics, crashed>>

\* select on k.stop, a notification is ready: from the buffer (a parked sender
\* then completes its send into the freed slot) or, on an unbuffered channel,
\* straight from the parked sender. The worker stops its ticker and returns;
\* the deferred p.Close and wg.Done run.
StopReceive(w) ==
    /\ ~crashed
    /\ pc[w] = "select"
    /\ stopLen > 0 \/ kpc = "stopParked"
    /\ IF kpc = "stopParked"
          THEN /\ stopI' = stopI + 1
               /\ kpc' = "stopSend"
               /\ stopLen' = stopLen
          ELSE /\ stopLen' = stopLen - 1
               /\ UNCHANGED <<stopI, kpc>>
    /\ wg' = wg - 1
    /\ taken' = [taken EXCEPT ![w] = @ + 1]
    /\ pc' = [pc EXCEPT ![w] = "exited"]
    /\ UNCHANGED <<confVars, calcVars, tickVars, interval, clients, createErr, assigned, msgBatch,
                   polls, sent, polled, metrics, crashed>>

\* select on k.stop, nothing ready: default, continue with the next tick.
StopDefault(w) ==
    /\ ~crashed
    /\ pc[w] = "select"
    /\ stopLen = 0 /\ kpc # "stopParked"
    /\ pc' = [pc EXCEPT ![w] = "wait"]
    /\ UNCHANGED <<confVars, calcVars, tickVars, interval, taken, kpc, clients, createErr, assigned, msgBatch,
                   polls, sent, polled, stopLen, stopI, wg, metrics, crashed>>

\* ---- StopProducers ----

\* The caller enters StopProducers: i := 1.
StopCall ==
    /\ ~crashed
    /\ kpc = "started"
    /\ stopI' = 1
    /\ kpc' = "stopSend"
    /\ UNCHANGED <<confVars, calcVars, tickVars, interval, taken, clients, createErr, assigned, workerVars,
                   stopLen, wg, metrics, crashed>>

\* k.stop <- true with room in the buffer.
StopSend ==
    /\ ~crashed
    /\ kpc = "stopSend"
    /\ stopI <= producers
    /\ stopLen < creators
    /\ stopLen' = stopLen + 1
    /\ stopI' = stopI + 1
    /\ UNCHANGED <<confVars, calcVars, tickVars, interval, taken, kpc, clients, createErr, assigned,
                   workerVars, wg, metrics, crashed>>

\* k.stop <- true with the buffer full (or no buffer): the sender parks until
\* a worker receives.
StopPark ==
    /\ ~crashed
    /\ kpc = "stopSend"
    /\ stopI <= producers
    /\ stopLen >= creators
    /\ kpc' = "stopParked"
    /\ UNCHANGED <<confVars, calcVars, tickVars, interval, taken, clients, createErr, assigned, workerVars,
                   stopLen, stopI, wg, metrics, crashed>>

\* The broadcast loop ends: on to k.wg.Wait().
StopLoopEnd ==
    /\ ~crashed
    /\ kpc = "stopSend"
    /\ stopI > producers
    /\ kpc' = "stopWait"
    /\ UNCHANGED <<confVars, calcVars, tickVars, interval, taken, clients, createErr, assigned, workerVars,
                   stopLen, stopI, wg, metrics, crashed>>

\* variant: StopProducers returns without waiting on the barrier
StopWaitNoBarrier ==
    /\ ~crashed
    /\ kpc = "stopWait"
    /\ kpc' = "stopped"
    /\ UNCHANGED <<confVars, calcVars, tickVars, interval, taken, clients, createErr, assigned, workerVars,
                   stopLen, stopI, wg, metrics, crashed>>

\* k.wg.Wait() returns once the counter is zero; the counters are printed and
\* StopProducers returns.
StopWait ==
    /\ ~crashed
    /\ kpc = "stopWait"
    /\ wg = 0
    /\ kpc' = "stopped"
    /\ UNCHANGED <<confVars, calcVars, tickVars, interval, taken, clients, createErr, assigned, workerVars,
                   stopLen, stopI, wg, metrics, crashed>>

\* ---- specifications ----

producer(w) ==
    \/ NewProducerOk(w)
    \/ NewProducerErr(w)
    \/ NewProducerNilClient(w)
    \/ Crash(w)

startSchedule(w) ==
    \/ TickEmpty(w)
    \/ TickAppend(w)
    \/ FlushStart(w)
    \/ SendOk(w)
    \/ SendFail(w)
    \/ StopReceive(w)
    \/ StopDefault(w)

StopProducers ==
    \/ StopCall
    \/ StopSend
    \/ StopPark
    \/ StopLoopEnd
    \/ StopWait

Next ==
    \/ KafkaProducer
    \/ StartProducers
    \/ \E w \in Workers : NewProducerOk(w)
    \/ \E w \in Workers : NewProducerErr(w)
    \/ \E w \in Workers : NewProducerNilClient(w)
    \/ \E w \in Workers : Crash(w)
    \/ \E w \in Workers : TickEmpty(w)
    \/ \E w \in Workers : TickAppend(w)
    \/ \E w \in Workers : FlushStart(w)
    \/ \E w \in Workers : SendOk(w)
    \/ \E w \in Workers : SendFail(w)
    \/ \E w \in Workers : StopReceive(w)
    \/ \E w \in Workers : StopDefault(w)
    \/ StopCall
    \/ StopSend
    \/ StopPark
    \/ StopLoopEnd
    \/ StopWait

Spec == Init /\ [][Next]_vars

\* Every running goroutine is scheduled again and again: tickers keep firing,
\* sends return, the caller of StopProducers proceeds when it can.
Fairness ==
    /\ \A w \in 0 .. (MaxWorkers - 1) :
          WF_vars(w \in Workers /\ (producer(w) \/ startSchedule(w)))
    /\ WF_vars(StopProducers)

LiveSpec == LiveInit /\ [][Next]_vars /\ Fairness

PoolNext ==
    \/ KafkaProducer
    \/ StartProducers

PoolSpec == PoolInit /\ [][PoolNext]_vars

ConfSpec == ConfInit /\ [][PoolNext]_vars

CalcNext == CallComputeClientAmount

CalcSpec == CalcInit /\ [][CalcNext]_vars

\* ---- the single-client variant (src/unnamed/part_000) ----
\* One client and one ticker, made at construction, are shared by all workers;
\* producer, the flush, the stop check and the rest of StopProducers are the
\* same code as above.

SingleInit ==
    /\ producers \in 1 .. MaxWorkers
    /\ creators \in 0 .. MaxCreators
    /\ batchSize \in 1 .. MaxBatch
    /\ msgRate = 1
    /\ supply = MaxLiveMsgs
    /\ calcW = 0 /\ calcR = 0 /\ calcOut = -1
    /\ InitRest

\* KafkaProducer of part_000: the error of sarama.NewClient is printed and the
\* pool is returned all the same; the ticker starts here.
SingleKafkaProducer ==
    /\ kpc = "new"
    /\ \E ok \in BOOLEAN :
          /\ clients' = <<IF ok THEN "open" ELSE "nil">>
          /\ createErr' = ~ok
    /\ interval' \in computeTickerInterval(msgRate, producers)
    /\ tickerOn' = TRUE
    /\ tickerC' = 0
    /\ metrics' = [sentBatches |-> 0, errors |-> 0]
    /\ stopLen' = 0
    /\ kpc' = "constructed"
    /\ UNCHANGED <<confVars, calcVars, taken, workerVars, assigned, stopI, wg, crashed>>

\* StartProducers of part_000: every worker uses k.client.
SingleStartProducers ==
    /\ kpc = "constructed"
    /\ ~crashed
    /\ wg' = wg + producers
    /\ assigned' = [i \in Workers |-> 0]
    /\ pc' = [i \in Workers |-> "start"]
    /\ kpc' = "started"
    /\ UNCHANGED <<confVars, calcVars, tickVars, interval, taken, clients, createErr,
                   msgBatch, polls, sent, polled, stopLen, stopI, metrics, crashed>>

\* The running ticker puts a tick into its channel of capacity 1; a tick that
\* finds the channel full is dropped.
TickerFire ==
    /\ ~crashed
    /\ tickerOn
    /\ tickerC = 0
    /\ tickerC' = 1
    /\ UNCHANGED <<confVars, calcVars, tickerOn, interval, taken, kpc, clients,
                   createErr, assigned, workerVars, stopLen, stopI, wg, metrics, crashed>>

\* A worker receives a tick from k.ticker.C and pollMessage finds the queue
\* empty.
SingleTickEmpty(w) ==
    /\ ~crashed
    /\ pc[w] = "wait"
    /\ tickerC = 1
    /\ tickerC' = 0
    /\ pc' = [pc EXCEPT ![w] = "select"]
    /\ UNCHANGED <<confVars, calcVars, tickerOn, interval, taken, kpc, clients,
                   createErr, assigned, msgBatch, polls, sent, polled, stopLen, stopI,
                   wg, metrics, crashed>>

\* A worker receives a tick from k.ticker.C and pollMessage returns a message.
SingleTickAppend(w) ==
    /\ ~crashed
    /\ pc[w] = "wait"
    /\ tickerC = 1
    /\ polled < supply
    /\ tickerC' = 0
    /\ polled' = polled + 1
    /\ polls' = [polls EXCEPT ![w] = Append(@, newMessage(w))]
    /\ msgBatch' = [msgBatch EXCEPT ![w] = Append(@, newMessage(w))]
    /\ pc' = [pc EXCEPT ![w] = IF batchFull(msgBatch'[w]) THEN "flush" ELSE "wait"]
    /\ UNCHANGED <<confVars, calcVars, tickerOn, interval, taken, kpc, clients,
                   createErr, assigned, sent, stopLen, stopI, wg, metrics, crashed>>

\* The caller enters StopProducers of part_000: k.ticker.Stop(), then i := 1.
\* k.ticker is a copy of the Ticker made by NewTicker; Stop on the copy stops
\* the ticker as documented, or misses the timer the runtime holds.
SingleStopCall ==
    /\ ~crashed
    /\ kpc = "started"
    /\ tickerOn' \in {FALSE, tickerOn}
    /\ stopI' = 1
    /\ kpc' = "stopSend"
    /\ UNCHANGED <<confVars, calcVars, tickerC, interval, taken, clients, createErr,
                   assigned, workerVars, stopLen, wg, metrics, crashed>>

SingleTick(w) == SingleTickEmpty(w) \/ SingleTickAppend(w)

SingleNext ==
    \/ SingleKafkaProducer
    \/ SingleStartProducers
    \/ TickerFire
    \/ \E w \in Workers : NewProducerOk(w)
    \/ \E w \in Workers : NewProducerErr(w)
    \/ \E w \in Workers : NewProducerNilClient(w)
    \/ \E w \in Workers : Crash(w)
    \/ \E w \in Workers : SingleTickEmpty(w)
    \/ \E w \in Workers : SingleTickAppend(w)
    \/ \E w \in Workers : FlushStart(w)
    \/ \E w \in Workers : SendOk(w)
    \/ \E w \in Workers : SendFail(w)
    \/ \E w \in Workers : StopReceive(w)
    \/ \E w \in Workers : StopDefault(w)
    \/ SingleStopCall
    \/ StopSend
    \/ StopPark
    \/ StopLoopEnd
    \/ StopWait

\* The ticker fires while it runs; the receivers on its channel are served in
\* turn, so a waiting worker gets a tick if ticks keep coming; every other
\* step of a goroutine is taken when it can be.
SingleFairness ==
    /\ WF_vars(TickerFire)
    /\ \A w \in 0 .. (MaxWorkers - 1) :
          /\ SF_vars(w \in Workers /\ SingleTick(w))
          /\ WF_vars(w \in Workers /\ (producer(w) \/ FlushStart(w) \/ SendOk(w)
                                        \/ SendFail(w) \/ StopReceive(w) \/ StopDefault(w)))
    /\ WF_vars(StopSend \/ StopPark \/ StopLoopEnd \/ StopWait)

SingleSpec == SingleInit /\ [][SingleNext]_vars /\ SingleFairness

\* ---- properties ----

InLoop(w) == pc[w] \in {"wait", "flush", "send", "select"}

StopCalled == kpc \in {"stopSend", "stopParked", "stopWait", "stopped"}

\* C1: when StopProducers has returned, the barrier is drained and every
\* worker has released its slot; none is still in its run loop.
C1_StopReturnsAfterAllExit ==
    kpc = "stopped" =>
        /\ wg = 0
        /\ \A w \in Workers : ~InLoop(w) /\ pc[w] \in {"exited", "panicking", "panicked"}

C1_Witness ==
    /\ kpc = "stopped"
    /\ producers >= 2
    /\ \A w \in Workers : pc[w] = "exited"
    /\ \E w \in Workers : sent[w] # <<>>

\* C2: once StopProducers has been called and every worker has created its
\* handle (it is in its run loop, or has left it on a notification),
\* eventually all workers have exited and StopProducers has returned (under
\* Fairness, for every batch size, source pattern and stop capacity).
C2_StopTerminates ==
    (StopCalled /\ \A w \in Workers : InLoop(w) \/ pc[w] = "exited")
        ~> (kpc = "stopped" /\ \A w \in Workers : pc[w] = "exited")

C2_Witness ==
    /\ kpc = "stopped"
    /\ creators < producers
    /\ batchSize >= 2
    /\ \A w \in Workers : pc[w] = "exited"

\* C3: the batch length stays within 0..batchSize, a worker is in the flush
\* exactly when its batch has reached batchSize, every batch passed to
\* SendMessages has exactly batchSize messages, and the partial batch of an
\* exited worker is in no send.
C3_OnlyFullBatchesSent ==
    \A w \in Workers :
        /\ Len(msgBatch[w]) \in 0 .. batchSize
        /\ (pc[w] \in {"flush", "send"}) <=> (Len(msgBatch[w]) = batchSize)
        /\ \A k \in 1 .. Len(sent[w]) : Len(sent[w][k].msgs) = batchSize
        /\ pc[w] = "exited" =>
              \A j \in 1 .. Len(msgBatch[w]) :
                 \A v \in Workers : \A k \in 1 .. Len(sent[v]) :
                    \A n \in 1 .. Len(sent[v][k].msgs) : sent[v][k].msgs[n] # msgBatch[w][j]

C3_Witness ==
    \E w \in Workers :
        /\ pc[w] = "exited"
        /\ msgBatch[w] # <<>>
        /\ sent[w] # <<>>

NumSends(ok) ==
    LET RECURSIVE Sum(_)
        Sum(ws) == IF ws = {} THEN 0
                   ELSE LET w == CHOOSE x \in ws : TRUE IN
                        Cardinality({k \in 1 .. Len(sent[w]) : sent[w][k].ok = ok})
                          + Sum(ws \ {w})
    IN Sum(Workers)

\* C4 (as claimed): while no worker is in the middle of a flush, sentBatches
\* is the number of successful sends and errors the number of failed sends.
C4_CountersMatchOutcomes ==
    (\A w \in Workers : pc[w] \notin {"flush", "send"}) =>
        /\ metrics.sentBatches = NumSends(TRUE)
        /\ metrics.errors = NumSends(FALSE)

\* C5: the k-th batch a worker passes to SendMessages is its polls
\* (k-1)*batchSize+1 .. k*batchSize, in poll order (with one worker, the
\* polls of the whole run).
C5_BatchesArePollBlocks ==
    \A w \in Workers : \A k \in 1 .. Len(sent[w]) :
        /\ k * batchSize <= Len(polls[w])
        /\ sent[w][k].msgs = [n \in 1 .. batchSize |-> polls[w][(k - 1) * batchSize + n]]

C5_Witness ==
    /\ producers = 1
    /\ batchSize = 2
    /\ Len(sent[0]) = 2
    /\ sent[0][1].msgs = << <<0, 1>>, <<0, 2>> >>
    /\ sent[0][2].msgs = << <<0, 3>>, <<0, 4>> >>

\* C6: a tick whose poll finds no message changes neither the worker's batch
\* nor the counters nor the sends and goes straight to the stop check; and
\* while the source has yielded nothing, all batches are empty and nothing
\* has been sent or counted.
C6_EmptyTickChangesNothing ==
    /\ [][\A w \in Workers :
            (pc[w] = "wait" /\ pc'[w] # "wait" /\ polled' = polled) =>
                /\ pc'[w] = "select"
                /\ msgBatch'[w] = msgBatch[w]
                /\ metrics' = metrics
                /\ sent' = sent]_vars
    /\ [](polled = 0 =>
            /\ \A w \in Workers : msgBatch[w] = <<>> /\ sent[w] = <<>>
            /\ metrics = [sentBatches |-> 0, errors |-> 0])

C6_Witness ==
    \E w \in Workers :
        /\ pc[w] = "select"
        /\ msgBatch[w] # <<>>
        /\ Len(msgBatch[w]) < batchSize

Msgs(q) == {q[n] : n \in 1 .. Len(q)}

\* C7: when SendMessages returns, with or without an error, the worker's
\* batch is empty and the worker is at the stop check of its loop; no message
\* is in two sends, and none of a send is still in a batch.
C7_BatchClearedNoRetry ==
    /\ [][\A w \in Workers :
            (pc[w] = "send" /\ pc'[w] # "send") =>
                /\ msgBatch'[w] = <<>>
                /\ pc'[w] = "select"
                /\ Len(sent'[w]) = Len(sent[w]) + 1]_vars
    /\ [](\A w \in Workers : \A k \in 1 .. Len(sent[w]) :
            /\ \A v \in Workers : \A j \in 1 .. Len(sent[v]) :
                  (<<v, j>> # <<w, k>>) => Msgs(sent[w][k].msgs) \cap Msgs(sent[v][j].msgs) = {}
            /\ \A v \in Workers :
                  pc[v] # "send" => Msgs(sent[w][k].msgs) \cap Msgs(msgBatch[v]) = {})

C7_Witness ==
    \E w \in Workers :
        /\ Len(sent[w]) = 2
        /\ ~sent[w][1].ok
        /\ InLoop(w)
        /\ msgBatch[w] = <<>>

\* C8 (as claimed): when createClients has failed, no pool is returned, no
\* worker is started and no client is left open.
C8_FailedConstructionReturnsNothing ==
    createErr =>
        /\ kpc = "new"
        /\ \A w \in Workers : pc[w] = "idle"
        /\ \A i \in 1 .. Len(clients) : clients[i] # "open"

\* C9: computeClientAmount(w, r) is the least integer c with c * r >= w, and
\* is at least 1; (12,5) gives 3, (5,5) gives 1, (1,5) gives 1.
C9_ClientAmountIsCeiling ==
    calcOut # -1 =>
        /\ calcOut >= 1
        /\ calcOut * calcR >= calcW
        /\ (calcOut - 1) * calcR < calcW
        /\ (calcW = 12 /\ calcR = 5) => calcOut = 3
        /\ (calcW = 5 /\ calcR = 5) => calcOut = 1
        /\ (calcW = 1 /\ calcR = 5) => calcOut = 1

C9_Witness == calcW = 12 /\ calcR = 5 /\ calcOut = 3

\* C10: after StartProducers, worker i holds client index floor(i/5), a valid
\* index into the pool of ceil(producers/5) clients; every client of the pool
\* is held by at least one and at most 5 workers.
C10_BlockAssignment ==
    kpc = "started" =>
        /\ Len(clients) * ProducerPerWorker >= producers
        /\ (Len(clients) - 1) * ProducerPerWorker < producers
        /\ \A i \in Workers :
              /\ assigned[i] * ProducerPerWorker <= i
              /\ i < (assigned[i] + 1) * ProducerPerWorker
              /\ assigned[i] + 1 \in DOMAIN clients
        /\ \A c \in 0 .. (Len(clients) - 1) :
              Cardinality({i \in Workers : assigned[i] = c}) \in 1 .. ProducerPerWorker

C10_Witness ==
    /\ kpc = "started"
    /\ producers = 12
    /\ Len(clients) = 3
    /\ assigned[11] = 2

\* C11 (as claimed): no two workers that hold the same client are inside
\* SendMessages at the same time.
C11_NoConcurrentSendsOnOneClient ==
    \A v \in Workers : \A w \in Workers :
        (v # w /\ assigned[v] = assigned[w]) => ~(pc[v] = "send" /\ pc[w] = "send")

\* C12 (as claimed): with a rate or a worker count of zero the construction
\* fails before an interval is computed or a client is opened.
C12_ZeroInputsRejected ==
    (msgRate = 0 \/ producers = 0) =>
        /\ kpc = "new"
        /\ interval.kind = "unset"
        /\ clients = <<>>

\* the two sides of the pacing relation, as big numbers
IntervalTimesRate(extra) == BigMul(BigAdd(interval.ns, BigOf(extra)), BigOf(msgRate))
WorkerNanos == BigMul(BigOf(producers), BigOf(NanosPerSecond))

\* C13 (as claimed): for msgRate > 0 and producers > 0 the interval I is
\* positive and I * msgRate <= producers * 10^9 < (I + 1) * msgRate.
C13_IntervalIsExactQuotient ==
    (kpc # "new" /\ msgRate > 0 /\ producers > 0) =>
        /\ interval.kind = "int"
        /\ interval.ns # <<>>
        /\ BigLeq(IntervalTimesRate(0), WorkerNanos)
        /\ BigLess(WorkerNanos, IntervalTimesRate(1))

\* C13 (amended): for msgRate > 0 and producers > 0 the interval I is positive
\* and I * msgRate <= producers * 10^9 < (I + 2) * msgRate: the float64
\* rounding can leave I one below the exact quotient.
C13_IntervalWithinOneOfQuotient ==
    (kpc # "new" /\ msgRate > 0 /\ producers > 0) =>
        /\ interval.kind = "int"
        /\ interval.ns # <<>>
        /\ BigLeq(IntervalTimesRate(0), WorkerNanos)
        /\ BigLess(WorkerNanos, IntervalTimesRate(2))

C13_Witness ==
    /\ kpc # "new"
    /\ msgRate = 5
    /\ producers = 9
    /\ interval = [kind |-> "int", ns |-> BigOf(1799999999)]

\* C14 (as claimed): the stop channel has room for one notification per
\* worker, and the broadcast loop of StopProducers never blocks.
C14_StopChannelHoldsAllNotifications ==
    /\ kpc # "new" => creators >= producers
    /\ kpc # "stopParked"

\* C15 (as claimed): every tick a worker processes ends at the stop check; in
\* particular a tick that appended a message does not go straight back to
\* waiting for the next tick.
C15_StopCheckedEveryTick ==
    [][\A w \in Workers :
          (pc[w] = "wait" /\ polls'[w] # polls[w]) => pc'[w] # "wait"]_vars

\* C16 (as claimed): no worker takes two notifications, and when
\* StopProducers has returned every worker has taken one and the stop
\* channel is empty.
C16_EachNotificationTakenOnce ==
    /\ \A w \in Workers : taken[w] <= 1
    /\ kpc = "stopped" =>
          /\ stopLen = 0
          /\ \A w \in Workers : taken[w] = 1

\* C17 (as claimed): when StopProducers has returned no client of the pool is
\* still open.
C17_ClientsClosedAfterStop ==
    kpc = "stopped" => \A i \in 1 .. Len(clients) : clients[i] # "open"

\* C18 (as claimed): in the single-client variant, once StopProducers has been
\* called and every worker has created its handle, eventually all workers
\* have exited and StopProducers has returned.
C18_SharedTickerStopTerminates ==
    (StopCalled /\ \A w \in Workers : InLoop(w) \/ pc[w] = "exited")
        ~> (kpc = "stopped" /\ \A w \in Workers : pc[w] = "exited")

\* C19 (as claimed): after StartProducers the barrier counter is the number
\* of workers that have not gone, never negative, and a worker is out of its
\* run loop only after StopProducers has been called.
C19_BarrierCountsLiveWorkers ==
    kpc \notin {"new", "constructed"} =>
        /\ wg >= 0
        /\ wg = Cardinality({w \in Workers : pc[w] \notin {"exited", "panicking", "panicked"}})
        /\ \A w \in Workers : pc[w] = "exited" => StopCalled

\* C20 (as claimed): a worker whose handle could not be created returns
\* without a call on the nil handle, so it never panics.
C20_FailedHandleExitsCleanly ==
    \A w \in Workers : pc[w] # "panicking" /\ (pc[w] = "panicked" => clients[assigned[w] + 1] = "nil")

====
